---- MODULE Spec2Model ----
\* A model of benc.h, the single-header C / C++ benchmarking harness: the
\* running statistics (bench_stats_t), the measurement list (bench_array_t),
\* suites (bench_create, bench_measure, bench_group, bench_compare,
\* bench_free) and the C++ wrapper bench::Group.
\*
\* Conventions.
\*  - A C float is a pair <<n, d>> in lowest terms with d >= 0.  d > 0 is the
\*    real n/d; <<1,0>>, <<-1,0>> and <<0,0>> are +inf, -inf and NaN.  The
\*    rounding of the 24-bit mantissa is not modelled: every integer the model
\*    converts is far below 2^24, where the conversion is exact.
\*  - uint32_t and uint64_t keep a width: arithmetic on stats.count is modulo
\*    2^CountBits and on stats.total modulo 2^TotalBits.
\*  - Time is counted in clock units; SECONDS is the default target_time in
\*    those units.
EXTENDS Integers, Sequences, FiniteSets

\* ------------------------------------------------------------------ bounds

\* Width in bits of stats.count (uint32_t in the source) in the model.
CountBits == 2
\* Width in bits of stats.total and of target_time (uint64_t in the source).
TotalBits == 4
\* Largest value pushed in the pure statistics specification.
MaxVal == 4
\* Longest sequence pushed in the pure statistics specification.
MaxLen == 3
\* One second, the default target_time, in clock units (SECONDS in the source
\* is 10^9 ns; the model's clock ticks more coarsely).
SECONDS == 2
\* Longest duration, in clock units, of one call of a measured function.
MaxDur == 3
\* Most zero-duration samples the clock yields within one measurement.
MaxZeros == 1
\* Most suites (bench_t) and measurements (bench_measurement_t) allocated.
MaxSuites == 2
MaxMeas == 3
\* Capacity a measurement list starts with (16 in the source), scaled so that
\* the list grows within MaxMeas measurements.
InitCapacity == 2
\* Largest target_time client code stores in a suite.
MaxTarget == 5
\* Most measurements taken in the specifications of client-set targets and
\* of bench::Group.
MaxRuns == 1
\* Most bench::Group objects constructed.
MaxGroups == 3

Names == {"fast"}
SuiteNames == {"bench"}
GroupNames == {"publish"}
Sinks == {"stdout", "file"}
Durations == 0 .. MaxDur

UINT32_MOD == 2 ^ CountBits
UINT64_MOD == 2 ^ TotalBits

\* ------------------------------------------------------------------ floats

Abs(x) == IF x < 0 THEN -x ELSE x

RECURSIVE Gcd(_, _)
Gcd(a, b) == IF b = 0 THEN a ELSE Gcd(b, a % b)

\* The float n/d in lowest terms (d > 0).
Norm(n, d) ==
  LET g == Gcd(Abs(n), d) IN <<n \div g, d \div g>>

NaN == <<0, 0>>
PInf == <<1, 0>>
NInf == <<-1, 0>>

IsFinite(x) == x[2] > 0
IsNaN(x) == x = NaN
Sign(x) == IF x[1] > 0 THEN 1 ELSE IF x[1] < 0 THEN -1 ELSE 0

\* (float) v for an unsigned integer v.
ToFloat(v) == <<v, 1>>

FNeg(x) == <<-x[1], x[2]>>

\* IEEE 754 addition on the values of the model.
FAdd(x, y) ==
  IF IsNaN(x) \/ IsNaN(y) THEN NaN
  ELSE IF IsFinite(x) /\ IsFinite(y)
    THEN Norm(x[1] * y[2] + y[1] * x[2], x[2] * y[2])
  ELSE IF IsFinite(x) THEN y
  ELSE IF IsFinite(y) THEN x
  ELSE IF x = y THEN x ELSE NaN

FSub(x, y) == FAdd(x, FNeg(y))

\* IEEE 754 multiplication on the values of the model.
FMul(x, y) ==
  IF IsNaN(x) \/ IsNaN(y) THEN NaN
  ELSE IF IsFinite(x) /\ IsFinite(y) THEN Norm(x[1] * y[1], x[2] * y[2])
  ELSE IF Sign(x) * Sign(y) = 0 THEN NaN
  ELSE <<Sign(x) * Sign(y), 0>>

\* IEEE 754 division on the values of the model (a zero divisor is +0).
FDiv(x, y) ==
  IF IsNaN(x) \/ IsNaN(y) THEN NaN
  ELSE IF IsFinite(x) /\ IsFinite(y)
    THEN IF y[1] = 0
           THEN <<Sign(x), 0>>
           ELSE Norm(Sign(y) * x[1] * y[2], x[2] * Abs(y[1]))
  ELSE IF IsFinite(x) THEN <<0, 1>>
  ELSE IF IsFinite(y) THEN <<Sign(x) * (IF Sign(y) < 0 THEN -1 ELSE 1), 0>>
  ELSE NaN

\* x < y and x > y as C compares floats: false when either is NaN.
FLess(x, y) ==
  /\ ~IsNaN(x)
  /\ ~IsNaN(y)
  /\ IF IsFinite(x) /\ IsFinite(y) THEN x[1] * y[2] < y[1] * x[2]
     ELSE IF IsFinite(x) THEN y = PInf
     ELSE IF IsFinite(y) THEN x = NInf
     ELSE x = NInf /\ y = PInf

FGreater(x, y) == FLess(y, x)

\* -------------------------------------------------------------- statistics

\* bench_stats_init: a zeroed bench_stats_t.
bench_stats_init ==
  [count |-> 0, total |-> 0, mean |-> ToFloat(0), d_squared |-> ToFloat(0)]

\* The increment computed from the old mean alone, (value - mean)^2.
d_squared_increment_old_mean(value, new_mean, mean) ==
  FMul(FSub(ToFloat(value), mean), FSub(ToFloat(value), mean))

\* The increment of d_squared for one pushed value.
d_squared_increment(value, new_mean, mean) ==
  FMul(FSub(ToFloat(value), new_mean), FSub(ToFloat(value), mean))

\* bench_stats_push: fold one value into the running statistics.
bench_stats_push(stats, value) ==
  LET count == (stats.count + 1) % UINT32_MOD
      total == (stats.total + value) % UINT64_MOD
      new_mean == FAdd(stats.mean,
                       FDiv(FSub(ToFloat(value), stats.mean), ToFloat(count)))
  IN [count |-> count,
      total |-> total,
      mean |-> new_mean,
      d_squared |-> FAdd(stats.d_squared,
                         d_squared_increment(value, new_mean, stats.mean))]

\* bench_stats_variance: d_squared / count.
bench_stats_variance(stats) == FDiv(stats.d_squared, ToFloat(stats.count))

\* floor(a * p / q) without forming a * p.
MulDiv(a, p, q) == (a \div q) * p + ((a % q) * p) \div q

\* floor(sqrt(y)) for lo <= floor(sqrt(y)) < hi, by bisection.
RECURSIVE ISqrtIn(_, _, _)
ISqrtIn(y, lo, hi) ==
  IF hi - lo <= 1 THEN lo
  ELSE LET mid == (lo + hi) \div 2 IN
       IF mid * mid <= y THEN ISqrtIn(y, mid, hi) ELSE ISqrtIn(y, lo, mid)

ISqrt(y) == ISqrtIn(y, 0, 46341)

\* sqrt(x) in hundredths, rounded to nearest as "%.2f" prints it:
\* floor(100 * sqrt(x) + 1/2) = (floor(sqrt(40000 * x)) + 1) div 2.
\* -1 stands for the text of a non-finite value ("nan", "inf").
Sqrt100(x) ==
  IF ~IsFinite(x) \/ x[1] < 0 THEN -1
  ELSE (ISqrt(MulDiv(40000, x[1], x[2])) + 1) \div 2

\* bench_stats_stddev: sqrt of the variance (in hundredths).
bench_stats_stddev(stats) == Sqrt100(bench_stats_variance(stats))

\* bench_stats_ops_per_sec: ((float) count / (float) total) * SECONDS.
bench_stats_ops_per_sec(stats) ==
  FMul(FDiv(ToFloat(stats.count), ToFloat(stats.total)), ToFloat(SECONDS))

\* bench_stats_print: the three figures of a measurement's summary line,
\* "<ops> i/s (+-<pm>%) (<mean>/i)".
bench_stats_print(stats) ==
  [ops |-> bench_stats_ops_per_sec(stats),
   pm |-> bench_stats_stddev(stats),
   mean |-> stats.mean]

\* ------------------------------------------------------------------- state

VARIABLES
  suites,    \* the bench_t objects allocated so far, by address (1, 2, ...)
  meas,      \* the bench_measurement_t objects allocated so far, by address
  stack,     \* the bench_group calls in progress, innermost last
  out,       \* the lines written so far, over all sinks
  pc,        \* "idle", "loop" (inside bench_measure's while) or "fault"
  run,       \* the bench_measure call in progress, or the last one returned
  compared,  \* history: one record per bench_compare call
  spans,     \* history: one record per bench_group call that returned
  groups,    \* the bench::Group objects constructed so far
  uaf,       \* history: a freed bench_t was read or freed again
  stats,     \* the bench_stats_t of the pure statistics specification
  pushed     \* history: the values pushed into stats

vars ==
  <<suites, meas, stack, out, pc, run, compared, spans, groups, uaf, stats,
    pushed>>

harness == <<suites, meas, stack, out, pc, run, compared, spans, groups, uaf>>

Zero == ToFloat(0)

\* One line of output.  suite and mid are history fields naming the bench_t and
\* the measurement the line is about.
Line(sink, suite, indent, kind, name, mid, fig) ==
  [sink |-> sink, suite |-> suite, indent |-> indent, kind |-> kind,
   name |-> name, mid |-> mid, ops |-> fig.ops, pm |-> fig.pm,
   mean |-> fig.mean]

NoFigures == [ops |-> Zero, pm |-> 0, mean |-> Zero]

NoRun ==
  [b |-> 0, m |-> 0, stored |-> FALSE, samples |-> <<>>, target |-> 0,
   stats |-> bench_stats_init, returned |-> FALSE, rc |-> 0]

\* ------------------------------------------------------------ dynamic array

\* bench_array_init with the capacity bench_create asks for.
bench_array_init ==
  [size |-> 0, capacity |-> InitCapacity, entries |-> <<>>]

\* bench_array_push reaches bench_array_resize: the array is full.
NeedsResize(array) == array.size = array.capacity

\* bench_array_push when bench_array_resize (if reached) succeeds.
bench_array_push(array, ptr) ==
  [size |-> array.size + 1,
   capacity |-> IF NeedsResize(array) THEN array.capacity * 2
                ELSE array.capacity,
   entries |-> Append(array.entries, ptr)]

\* bench_array_clear: free(entries), size = 0.
bench_array_clear(array) ==
  [size |-> 0, capacity |-> array.capacity, entries |-> <<>>]

\* --------------------------------------------------------------- suites

\* The indent bench_group gives the child suite.
GroupIndent(parent) == parent.indent + 2

\* The bench_t bench_create builds.
NewSuite(name, sink, indent) ==
  [live |-> TRUE, name |-> name, out |-> sink, indent |-> indent,
   target_time |-> SECONDS, measurements |-> bench_array_init]

\* The lines bench_create writes for suite b: the version banner for a
\* top-level suite, then "# name".
CreateLines(b, name, sink, indent) ==
  (IF indent = 0
     THEN <<Line(sink, b, 0, "banner", "benc.h v1.0.0", 0, NoFigures)>>
     ELSE <<>>)
  \o <<Line(sink, b, indent, "header", name, 0, NoFigures)>>

\* The suite client code is in: the argument of the innermost group function,
\* or, outside every group function, any suite it created and still holds.
Current ==
  IF stack = <<>>
    THEN {b \in 1 .. Len(suites) : suites[b].live}
    ELSE {stack[Len(stack)].b2} \ {0}

\* bench_create(name, out): client code creates its top-level suite.
bench_create(name, sink) ==
  /\ pc = "idle"
  /\ suites = <<>>
  /\ suites' = Append(suites, NewSuite(name, sink, 0))
  /\ out' = out \o CreateLines(Len(suites) + 1, name, sink, 0)
  /\ UNCHANGED <<meas, stack, pc, run, compared, spans, groups, uaf, stats,
                 pushed>>

\* ------------------------------------------------------------- bench_measure

\* The loop going on until the total exceeds the target.
LoopCond_inclusive(total, target_time) == total <= target_time

\* The condition of bench_measure's while loop.
LoopCond(total, target_time) == total < target_time

\* bench_measure up to its loop: print "name - ", allocate and initialise the
\* measurement, push it onto the suite's list.
bench_measure_begin(b, name) ==
  /\ pc = "idle"
  /\ b \in Current
  /\ Len(meas) < MaxMeas
  /\ LET m == Len(meas) + 1 IN
       /\ out' = Append(out, Line(suites[b].out, b, suites[b].indent,
                                   "measure_name", name, m, NoFigures))
       /\ meas' = Append(meas, [live |-> TRUE, name |-> name,
                                 stats |-> bench_stats_init])
       /\ suites' = [suites EXCEPT ![b].measurements =
                                      bench_array_push(@, m)]
       /\ run' = [NoRun EXCEPT !.b = b, !.m = m, !.stored = TRUE]
  /\ pc' = "loop"
  /\ UNCHANGED <<stack, compared, spans, groups, uaf, stats, pushed>>

\* The zero-duration samples of the measurement in progress.
ZeroSamples == {i \in 1 .. Len(run.samples) : run.samples[i] = 0}

\* One iteration of the loop: fn(data) takes d clock units, end - start = d
\* is pushed.
bench_measure_iter(d) ==
  /\ pc = "loop"
  /\ LoopCond(meas[run.m].stats.total, suites[run.b].target_time)
  /\ d = 0 => Cardinality(ZeroSamples) < MaxZeros
  /\ meas' = [meas EXCEPT ![run.m].stats = bench_stats_push(@, d)]
  /\ run' = [run EXCEPT !.samples = Append(@, d)]
  /\ UNCHANGED <<suites, stack, out, pc, compared, spans, groups, uaf, stats,
                 pushed>>

\* The loop ends: print the summary, end the line, return 0.
bench_measure_end ==
  /\ pc = "loop"
  /\ ~LoopCond(meas[run.m].stats.total, suites[run.b].target_time)
  /\ out' = [out EXCEPT ![Len(out)] =
                Line(suites[run.b].out, run.b, suites[run.b].indent,
                     "measure", meas[run.m].name, run.m,
                     bench_stats_print(meas[run.m].stats))]
  /\ run' = [run EXCEPT !.returned = TRUE, !.rc = 0,
                        !.stats = meas[run.m].stats,
                        !.target = suites[run.b].target_time]
  /\ pc' = "idle"
  /\ UNCHANGED <<suites, meas, stack, compared, spans, groups, uaf, stats,
                 pushed>>

\* ------------------------------------------------------------- bench_compare

\* The comparator with its two results exchanged: ascending order.
_bench_compare_measurement_ascending(ma, mb) ==
  LET current == bench_stats_ops_per_sec(meas[ma].stats)
      next == bench_stats_ops_per_sec(meas[mb].stats)
  IN IF FGreater(current, next) THEN 1
     ELSE IF FLess(current, next) THEN -1
     ELSE 0

\* _bench_compare_measurement on two entries of the list.
_bench_compare_measurement(ma, mb) ==
  LET current == bench_stats_ops_per_sec(meas[ma].stats)
      next == bench_stats_ops_per_sec(meas[mb].stats)
  IN IF FGreater(current, next) THEN -1
     ELSE IF FLess(current, next) THEN 1
     ELSE 0

Range(f) == {f[i] : i \in DOMAIN f}

\* The arrangements of the entries of a list.
Arrangements(entries) ==
  {p \in [1 .. Len(entries) -> Range(entries)] : Range(p) = Range(entries)}

\* The comparator orders the entries consistently: no throughput is NaN.
Consistent(entries) ==
  \A i \in 1 .. Len(entries) :
    ~IsNaN(bench_stats_ops_per_sec(meas[entries[i]].stats))

\* The lists qsort may leave: every arrangement in the comparator's order;
\* any arrangement when the comparator is not an ordering.
qsort(entries) ==
  {p \in Arrangements(entries) :
     Consistent(entries) =>
       \A i, j \in 1 .. Len(p) :
         i < j => _bench_compare_measurement(p[i], p[j]) <= 0}

\* A comparison shown for every list that is not empty.
ShowComparison_nonempty(size) == size > 0

\* bench_compare shows a comparison for a list of this size.
ShowComparison(size) == size > 1

\* "(<pct>% slower)": (stats->mean / first->mean) * 100 - 100.
PercentSlower(st, first) ==
  FSub(FMul(FDiv(st.mean, first.mean), ToFloat(100)), ToFloat(100))

\* The lines bench_compare writes for suite b with its list sorted.
CompareLines(b, sorted) ==
  LET sb == suites[b] IN
  IF ShowComparison(sb.measurements.size)
    THEN <<Line(sb.out, b, sb.indent, "comparing", "Comparing...", 0,
                NoFigures)>>
         \o [i \in 1 .. Len(sorted) |->
               IF i = 1
                 THEN Line(sb.out, b, sb.indent, "fastest",
                           meas[sorted[i]].name, sorted[i], NoFigures)
                 ELSE Line(sb.out, b, sb.indent, "slower",
                           meas[sorted[i]].name, sorted[i],
                           [NoFigures EXCEPT !.mean =
                              PercentSlower(meas[sorted[i]].stats,
                                            meas[sorted[1]].stats)])]
    ELSE <<>>

\* bench_free: every measurement of the list, the list and the suite.
bench_free_suites(b) ==
  [suites EXCEPT ![b].live = FALSE,
                 ![b].measurements = bench_array_clear(@)]

bench_free_meas(b) ==
  [m \in 1 .. Len(meas) |->
     IF m \in Range(suites[b].measurements.entries)
       THEN [meas[m] EXCEPT !.live = FALSE]
       ELSE meas[m]]

\* bench_compare(b) with qsort leaving the list as sorted.
bench_compare(b, sorted) ==
  /\ sorted \in qsort(suites[b].measurements.entries)
  /\ out' = out \o CompareLines(b, sorted)
  /\ suites' = bench_free_suites(b)
  /\ meas' = bench_free_meas(b)
  /\ compared' = Append(compared,
                        [b |-> b, size |-> suites[b].measurements.size,
                         entries |-> suites[b].measurements.entries])

\* bench_compare(b) called by client code outside every group.
bench_compare_call(b) ==
  /\ pc = "idle"
  /\ stack = <<>>
  /\ b \in Current
  /\ \E sorted \in Arrangements(suites[b].measurements.entries) :
       bench_compare(b, sorted)
  /\ UNCHANGED <<stack, pc, run, spans, groups, uaf, stats, pushed>>

\* --------------------------------------------------------------- bench_group

\* bench_group up to the call of fn: create the child suite, call fn(b2).
bench_group_fn(b, name) ==
  /\ pc = "idle"
  /\ b \in Current
  /\ Len(suites) < MaxSuites
  /\ LET b2 == Len(suites) + 1
         indent == GroupIndent(suites[b])
     IN /\ suites' = Append(suites, NewSuite(name, suites[b].out, indent))
        /\ out' = out \o CreateLines(b2, name, suites[b].out, indent)
        /\ stack' = Append(stack, [b |-> b, b2 |-> b2, from |-> Len(out)])

\* bench_group(b, name, fn) called by client code.
bench_group_call(b, name) ==
  /\ bench_group_fn(b, name)
  /\ UNCHANGED <<meas, pc, run, compared, spans, groups, uaf, stats, pushed>>

\* bench_group returning without finalizing the child, left to the caller.
bench_group_return_deferred ==
  /\ pc = "idle"
  /\ stack # <<>>
  /\ stack[Len(stack)].b2 # 0
  /\ LET top == stack[Len(stack)] IN
       spans' = Append(spans, [b |-> top.b, b2 |-> top.b2,
                               from |-> top.from, to |-> Len(out)])
  /\ stack' = SubSeq(stack, 1, Len(stack) - 1)
  /\ UNCHANGED <<suites, meas, out, compared, pc, run, groups, uaf, stats,
                 pushed>>

\* fn(b2) returns: bench_compare(b2), then bench_group returns.
bench_group_compare ==
  /\ pc = "idle"
  /\ stack # <<>>
  /\ LET top == stack[Len(stack)] IN
       /\ top.b2 # 0
       /\ \E sorted \in Arrangements(suites[top.b2].measurements.entries) :
            bench_compare(top.b2, sorted)
       /\ spans' = Append(spans, [b |-> top.b, b2 |-> top.b2,
                                   from |-> top.from, to |-> Len(out')])
  /\ stack' = SubSeq(stack, 1, Len(stack) - 1)

\* The group function of a bench_group call made by client code returns.
bench_group_return ==
  /\ bench_group_compare
  /\ UNCHANGED <<pc, run, groups, uaf, stats, pushed>>

\* ------------------------------------------------------------ specification

InitHarness ==
  /\ suites = <<>>
  /\ meas = <<>>
  /\ stack = <<>>
  /\ out = <<>>
  /\ pc = "idle"
  /\ run = NoRun
  /\ compared = <<>>
  /\ spans = <<>>
  /\ groups = <<>>
  /\ uaf = FALSE

Init ==
  /\ InitHarness
  /\ stats = bench_stats_init
  /\ pushed = <<>>

Next ==
  \/ \E name \in SuiteNames, sink \in Sinks : bench_create(name, sink)
  \/ \E b \in Current, name \in Names : bench_measure_begin(b, name)
  \/ \E d \in Durations : bench_measure_iter(d)
  \/ bench_measure_end
  \/ \E b \in Current, name \in GroupNames : bench_group_call(b, name)
  \/ bench_group_return
  \/ \E b \in Current : bench_compare_call(b)

Spec == Init /\ [][Next]_vars

\* The sum of a sequence of durations.
RECURSIVE SumSeq(_)
SumSeq(q) == IF q = <<>> THEN 0 ELSE q[1] + SumSeq(Tail(q))

\* ------------------------------------------------ allocations that fail

\* bench_measure when malloc returns NULL for the measurement: "name - " is
\* written, then bench_measurement_init stores through the null pointer.  The
\* behaviour is undefined; the model records the fault and follows the run no
\* further.
bench_measure_begin_no_measurement(b, name) ==
  /\ pc = "idle"
  /\ b \in Current
  /\ out' = Append(out, Line(suites[b].out, b, suites[b].indent,
                              "measure_name", name, 0, NoFigures))
  /\ pc' = "fault"
  /\ UNCHANGED <<suites, meas, stack, run, compared, spans, groups, uaf,
                 stats, pushed>>

\* bench_measure when the list is full and realloc fails in
\* bench_array_resize: bench_array_push returns false, which bench_measure
\* does not look at, and the loop is entered.
bench_measure_begin_no_growth(b, name) ==
  /\ pc = "idle"
  /\ b \in Current
  /\ Len(meas) < MaxMeas
  /\ NeedsResize(suites[b].measurements)
  /\ out' = Append(out, Line(suites[b].out, b, suites[b].indent,
                              "measure_name", name, Len(meas) + 1, NoFigures))
  /\ meas' = Append(meas, [live |-> TRUE, name |-> name,
                            stats |-> bench_stats_init])
  /\ run' = [NoRun EXCEPT !.b = b, !.m = Len(meas) + 1, !.stored = FALSE]
  /\ pc' = "loop"
  /\ UNCHANGED <<suites, stack, compared, spans, groups, uaf, stats, pushed>>

\* bench_group when calloc fails in bench_array_init: bench_create frees the
\* bench_t and returns NULL before writing the header, and bench_group calls
\* fn(NULL).
bench_group_call_no_list(b, name) ==
  /\ pc = "idle"
  /\ b \in Current
  /\ stack' = Append(stack, [b |-> b, b2 |-> 0, from |-> Len(out)])
  /\ UNCHANGED <<suites, meas, out, pc, run, compared, spans, groups, uaf,
                 stats, pushed>>

\* bench_group when malloc returns NULL for the bench_t: bench_create stores
\* through the null pointer (undefined; the model records the fault).
bench_group_call_no_suite(b, name) ==
  /\ pc = "idle"
  /\ b \in Current
  /\ pc' = "fault"
  /\ UNCHANGED <<suites, meas, stack, out, run, compared, spans, groups, uaf,
                 stats, pushed>>

\* fn(NULL) uses its argument (bench_measure and bench_group read b->indent),
\* or returns and bench_compare(NULL) reads the list: a null pointer is read.
null_suite_read ==
  /\ pc = "idle"
  /\ stack # <<>>
  /\ stack[Len(stack)].b2 = 0
  /\ pc' = "fault"
  /\ UNCHANGED <<suites, meas, stack, out, run, compared, spans, groups, uaf,
                 stats, pushed>>

NextAlloc ==
  \/ Next
  \/ \E b \in Current, name \in Names :
       bench_measure_begin_no_measurement(b, name)
  \/ \E b \in Current, name \in Names : bench_measure_begin_no_growth(b, name)
  \/ \E b \in Current, name \in GroupNames : bench_group_call_no_list(b, name)
  \/ \E b \in Current, name \in GroupNames : bench_group_call_no_suite(b, name)
  \/ null_suite_read

SpecAlloc == Init /\ [][NextAlloc]_vars

\* C7: a failed allocation is surfaced to the caller.  bench_group does not
\* call the group function on a suite that failed to be created, and
\* bench_measure neither runs the sampling loop nor returns success for a
\* measurement that is not in the suite's list.
C7_FailureSurfaced ==
  /\ \A i \in DOMAIN stack : stack[i].b2 # 0
  /\ pc = "loop" => run.stored
  /\ (run.returned /\ run.rc = 0) => run.stored

\* ------------------------------------------ target_time set by client code

\* b->target_time = t: client code stores a target in the suite's field.
SetTargetTime(b, t) ==
  /\ pc = "idle"
  /\ b \in Current
  /\ suites' = [suites EXCEPT ![b].target_time = t]
  /\ UNCHANGED <<meas, stack, out, pc, run, compared, spans, groups, uaf,
                 stats, pushed>>

\* One suite whose client stores target times and takes up to MaxRuns
\* measurements.
NextTarget ==
  \/ \E name \in SuiteNames, sink \in Sinks : bench_create(name, sink)
  \/ \E b \in Current, t \in 0 .. MaxTarget : SetTargetTime(b, t)
  \/ \E b \in Current, name \in Names :
       Len(meas) < MaxRuns /\ bench_measure_begin(b, name)
  \/ \E d \in Durations : bench_measure_iter(d)
  \/ bench_measure_end
  \/ \E b \in Current : bench_compare_call(b)

SpecTarget == Init /\ [][NextTarget]_vars

\* The statistics of the bench_measure call in progress or last returned.
RunStats == IF run.returned THEN run.stats ELSE meas[run.m].stats

\* The target_time that call ran, or runs, against.
RunTarget == IF run.returned THEN run.target ELSE suites[run.b].target_time

\* C1: whatever target_time the suite holds, when bench_measure returns the
\* new measurement's stats.count is at least 1.
C1_AtLeastOnce == run.returned => run.stats.count >= 1

\* C10: while every measured duration is at least one clock unit, the loop
\* runs at most target_time iterations and neither stats.count nor
\* stats.total wraps around: they stay the number and the sum of the samples.
C10_NoWrap ==
  (run.m # 0 /\ \A i \in DOMAIN run.samples : run.samples[i] >= 1) =>
    /\ Len(run.samples) <= RunTarget
    /\ RunStats.count = Len(run.samples)
    /\ RunStats.total = SumSeq(run.samples)

\* ------------------------------------------------------- the sampling loop


\* The prefix sums of the samples of a run, before the last one.
PrefixSums(q) == {SumSeq(SubSeq(q, 1, k)) : k \in 0 .. Len(q) - 1}

\* C2: bench_measure stops at the first sample that brings the accumulated
\* measured time to the target.  On return stats.total is the sum of the pushed
\* durations, it is >= target_time, every shorter prefix of the samples sums to
\* less than target_time (so total minus the last duration is < target_time)
\* and count is the number of samples.
C2_StopsAtTarget ==
  run.returned =>
    LET q == run.samples IN
      /\ run.stats.total = SumSeq(q)
      /\ run.stats.count = Len(q)
      /\ run.stats.total >= run.target
      /\ \A p \in PrefixSums(q) : p < run.target
      /\ Len(q) >= 1 => run.stats.total - q[Len(q)] < run.target

\* A first call longer than the whole target: the loop stops after exactly one
\* iteration.
C2_Witness ==
  /\ run.returned
  /\ Len(run.samples) = 1
  /\ run.samples[1] > run.target
  /\ run.stats.count = 1

\* ------------------------------------------------------------- the ranking

\* The lines of the given kinds written for suite b, in the order written.
LinesOf(b, kinds) ==
  LET Test(l) == l.suite = b /\ l.kind \in kinds IN SelectSeq(out, Test)

\* The bench_compare calls made on suite b.
CallsOn(b) == {i \in DOMAIN compared : compared[i].b = b}

\* C3: the ranking report (the "Comparing..." header and the ranked entries) is
\* written if and only if the suite holds two or more measurements when it is
\* finalized; with zero or one measurement nothing of it is written; and it is
\* written at most once per suite.
C3_ReportIffTwo ==
  \A b \in 1 .. Len(suites) :
    LET headers == LinesOf(b, {"comparing"})
        entries == LinesOf(b, {"fastest", "slower"})
    IN /\ Len(headers) <= 1
       /\ Len(headers) = 1 <=> \E i \in CallsOn(b) : compared[i].size >= 2
       /\ CallsOn(b) = {} => entries = <<>>
       /\ \A i \in CallsOn(b) :
            Len(entries) = IF compared[i].size >= 2 THEN compared[i].size
                           ELSE 0

\* One suite finalized with a single measurement and no report, another with
\* two measurements and its report.
C3_Witness ==
  \E i, j \in DOMAIN compared :
    /\ compared[i].size = 1
    /\ LinesOf(compared[i].b, {"comparing", "fastest", "slower"}) = <<>>
    /\ compared[j].size = 2
    /\ Len(LinesOf(compared[j].b, {"comparing"})) = 1

\* Throughput as the claim states it, count / total.
Throughput(m) == FDiv(ToFloat(meas[m].stats.count), ToFloat(meas[m].stats.total))

\* C4: for a suite finalized with two or more measurements, the entries written
\* are its measurements, each exactly once, in non-increasing order of
\* throughput: the first is the one marked "(fastest)" and has the largest
\* throughput, every later one is marked slower and is no faster than the one
\* before it.
C4_Ranking ==
  \A i \in DOMAIN compared :
    compared[i].size >= 2 =>
      LET r == LinesOf(compared[i].b, {"fastest", "slower"}) IN
        /\ Len(r) = compared[i].size
        /\ {r[k].mid : k \in DOMAIN r} = Range(compared[i].entries)
        /\ \A k \in DOMAIN r :
             r[k].kind = IF k = 1 THEN "fastest" ELSE "slower"
        /\ \A k \in DOMAIN r :
             ~FLess(Throughput(r[1].mid), Throughput(r[k].mid))
        /\ \A k \in 1 .. Len(r) - 1 :
             ~FLess(Throughput(r[k].mid), Throughput(r[k + 1].mid))

\* Three measurements taken in the order A, B, C with B faster than A faster
\* than C are reported in the order B, A, C.
C4_Witness ==
  \E i \in DOMAIN compared :
    /\ compared[i].size = 3
    /\ LET e == compared[i].entries
           r == LinesOf(compared[i].b, {"fastest", "slower"})
       IN /\ FLess(Throughput(e[1]), Throughput(e[2]))
          /\ FLess(Throughput(e[3]), Throughput(e[1]))
          /\ <<r[1].mid, r[2].mid, r[3].mid>> = <<e[2], e[1], e[3]>>

\* ------------------------------------------------------------- the nesting

\* The places in out of the lines of the given kinds written for suite b.
Places(b, kinds) ==
  {k \in DOMAIN out : out[k].suite = b /\ out[k].kind \in kinds}

\* C5: nesting is call and return.  For every bench_group(parent, name, fn)
\* call that returned, the child was created with the parent's indent + 2 and
\* the parent's sink; the child's header line is the first line written after
\* the call began; every line of the child (its header, its measurement lines,
\* its ranking report) was written before the call returned, in that order;
\* its report is there when it held two or more measurements; and the parent
\* wrote nothing in between, so all its later output follows.
C5_Nesting ==
  \A i \in DOMAIN spans :
    LET sp == spans[i]
        during == (sp.from + 1) .. sp.to
        header == Places(sp.b2, {"header"})
        lines == Places(sp.b2, {"measure_name", "measure"})
        report == Places(sp.b2, {"comparing"})
        ranks == Places(sp.b2, {"fastest", "slower"})
    IN /\ suites[sp.b2].indent = suites[sp.b].indent + 2
       /\ suites[sp.b2].out = suites[sp.b].out
       /\ header = {sp.from + 1}
       /\ \A k \in during :
            out[k].suite = sp.b2 =>
              /\ out[k].indent = suites[sp.b].indent + 2
              /\ out[k].sink = suites[sp.b].out
       /\ Places(sp.b2, {"header", "measure_name", "measure", "comparing",
                          "fastest", "slower"}) \subseteq during
       /\ \A h \in header, l \in lines : h < l
       /\ \A l \in lines, c \in report : l < c
       /\ \A c \in report, e \in ranks : c < e
       /\ Cardinality(lines) >= 2 => Cardinality(report) = 1
       /\ \A k \in during : out[k].suite # sp.b

\* A group of two measurements returned with its report written, and the
\* parent wrote a line afterwards.
C5_Witness ==
  \E i \in DOMAIN spans :
    /\ Cardinality(Places(spans[i].b2, {"measure"})) = 2
    /\ Cardinality(Places(spans[i].b2, {"comparing"})) = 1
    /\ \E k \in DOMAIN out : k > spans[i].to /\ out[k].suite = spans[i].b

\* ------------------------------------------------- the C++ bench::Group

\* A bench::Group object: its bench member, whether the object is alive, the
\* depth of the scope it lives in and the constructor that made it.
NewGroup(b, ctor) ==
  [bench |-> b, alive |-> TRUE, depth |-> Len(stack), ctor |-> ctor]

\* The Group objects client code can use in the scope it is in.
InScope ==
  {g \in 1 .. Len(groups) : groups[g].alive /\ groups[g].depth = Len(stack)}

\* The bench_t pointers client code got from bench_create itself.
Raw ==
  {b \in 1 .. Len(suites) :
     /\ suites[b].live
     /\ suites[b].indent = 0
     /\ \A g \in 1 .. Len(groups) :
          groups[g].bench = b => groups[g].ctor # "name"}

\* Group(const std::string&, FILE*): bench_create(name.c_str(), out, 0, NULL).
Group_Group_name(name, sink) ==
  /\ pc = "idle"
  /\ stack = <<>>
  /\ Len(suites) < MaxSuites
  /\ Len(groups) < MaxGroups
  /\ suites' = Append(suites, NewSuite(name, sink, 0))
  /\ out' = out \o CreateLines(Len(suites) + 1, name, sink, 0)
  /\ groups' = Append(groups, NewGroup(Len(suites) + 1, "name"))
  /\ UNCHANGED <<meas, stack, pc, run, compared, spans, uaf, stats, pushed>>

\* Group(bench_t*): the object wraps a suite that exists.
Group_Group_bench(b) ==
  /\ pc = "idle"
  /\ stack = <<>>
  /\ b \in Raw
  /\ Len(groups) < MaxGroups
  /\ groups' = Append(groups, NewGroup(b, "bench"))
  /\ UNCHANGED <<suites, meas, stack, out, pc, run, compared, spans, uaf,
                 stats, pushed>>

\* The copy constructor the class leaves to the compiler: the bench member
\* is copied.
Group_Group_copy(g) ==
  /\ pc = "idle"
  /\ g \in InScope
  /\ Len(groups) < MaxGroups
  /\ groups' = Append(groups, NewGroup(groups[g].bench, "copy"))
  /\ UNCHANGED <<suites, meas, stack, out, pc, run, compared, spans, uaf,
                 stats, pushed>>

\* ~Group on a suite that is alive: bench_compare(bench) if bench->indent is
\* 0.
Group_delete(g) ==
  /\ pc = "idle"
  /\ g \in InScope
  /\ groups[g].ctor # "group"
  /\ suites[groups[g].bench].live
  /\ groups' = [groups EXCEPT ![g].alive = FALSE]
  /\ IF suites[groups[g].bench].indent = 0
       THEN \E sorted \in
                 Arrangements(suites[groups[g].bench].measurements.entries) :
              bench_compare(groups[g].bench, sorted)
       ELSE UNCHANGED <<suites, meas, out, compared>>
  /\ UNCHANGED <<stack, pc, run, spans, uaf, stats, pushed>>

\* ~Group on a suite that bench_free released: bench->indent is read from
\* freed memory.  The behaviour is undefined: the read faults, or it returns
\* what the field last held and bench_compare runs on the freed suite, whose
\* second bench_free may fault in turn.
Group_delete_freed(g) ==
  /\ pc = "idle"
  /\ g \in InScope
  /\ groups[g].ctor # "group"
  /\ ~suites[groups[g].bench].live
  /\ uaf' = TRUE
  /\ \/ /\ pc' = "fault"
        /\ UNCHANGED <<suites, meas, out, compared, groups>>
     \/ /\ groups' = [groups EXCEPT ![g].alive = FALSE]
        /\ IF suites[groups[g].bench].indent = 0
             THEN bench_compare(groups[g].bench, <<>>)
             ELSE UNCHANGED <<suites, meas, out, compared>>
        /\ pc' \in {"idle", "fault"}
  /\ UNCHANGED <<stack, run, spans, stats, pushed>>

\* Group::measure(name, fn): bench_measure(bench, ...) up to its loop.
Group_measure(g, name) ==
  /\ g \in InScope
  /\ suites[groups[g].bench].live
  /\ Len(meas) < MaxRuns
  /\ bench_measure_begin(groups[g].bench, name)

\* Group::measure or Group::group on a suite that bench_free released:
\* bench->indent is read from freed memory to write the indent (undefined;
\* the model records the read and follows the run no further).
Group_use_freed(g) ==
  /\ pc = "idle"
  /\ g \in InScope
  /\ ~suites[groups[g].bench].live
  /\ uaf' = TRUE
  /\ pc' = "fault"
  /\ UNCHANGED <<suites, meas, stack, out, run, compared, spans, groups,
                 stats, pushed>>

\* Group::group(name, fn): bench_group(bench, ...) up to the call of the
\* lambda, which constructs Group g(b) on the child and calls fn(&g).
Group_group_call(g, name) ==
  /\ g \in InScope
  /\ suites[groups[g].bench].live
  /\ Len(groups) < MaxGroups
  /\ bench_group_fn(groups[g].bench, name)
  /\ groups' = Append(groups,
                      [bench |-> Len(suites) + 1, alive |-> TRUE,
                       depth |-> Len(stack) + 1, ctor |-> "group"])
  /\ UNCHANGED <<meas, pc, run, compared, spans, uaf, stats, pushed>>

\* fn(&g) returns with the Group objects of its scope destroyed: the lambda
\* returns, ~Group runs on g (the child's indent is not 0), and bench_group
\* finalizes the child.
Group_group_return ==
  /\ \A g \in InScope : groups[g].ctor = "group"
  /\ bench_group_compare
  /\ groups' = [g \in 1 .. Len(groups) |->
                  IF g \in InScope THEN [groups[g] EXCEPT !.alive = FALSE]
                  ELSE groups[g]]
  /\ UNCHANGED <<pc, run, uaf, stats, pushed>>

NextGroup ==
  \/ \E name \in SuiteNames, sink \in Sinks : bench_create(name, sink)
  \/ \E name \in SuiteNames, sink \in Sinks : Group_Group_name(name, sink)
  \/ \E b \in Raw : Group_Group_bench(b)
  \/ \E g \in InScope : Group_Group_copy(g)
  \/ \E g \in InScope : Group_delete(g)
  \/ \E g \in InScope : Group_delete_freed(g)
  \/ \E g \in InScope, name \in Names : Group_measure(g, name)
  \/ \E d \in Durations : bench_measure_iter(d)
  \/ bench_measure_end
  \/ \E g \in InScope : Group_use_freed(g)
  \/ \E g \in InScope, name \in GroupNames : Group_group_call(g, name)
  \/ Group_group_return

SpecGroup == Init /\ [][NextGroup]_vars

\* C6: no suite is read after bench_free released it, no suite is finalized
\* twice, and once every Group object is destroyed the suite of each has been
\* finalized exactly once.
C6_FinalizedOnce ==
  /\ ~uaf
  /\ \A b \in 1 .. Len(suites) : Cardinality(CallsOn(b)) <= 1
  /\ (pc = "idle" /\ \A g \in 1 .. Len(groups) : ~groups[g].alive) =>
       \A g \in 1 .. Len(groups) : Cardinality(CallsOn(groups[g].bench)) = 1

\* ---------------------------------------------- the statistics on their own

\* bench_stats_push(&stats, v) on a bench_stats_t that bench_stats_init zeroed.
StatsPush(v) ==
  /\ Len(pushed) < MaxLen
  /\ stats' = bench_stats_push(stats, v)
  /\ pushed' = Append(pushed, v)
  /\ UNCHANGED harness

NextStats == \E v \in 0 .. MaxVal : StatsPush(v)

SpecStats == Init /\ [][NextStats]_vars

\* n^2 times the sum of the squared deviations of q from its mean, n = Len(q).
RECURSIVE SumSqDevN(_, _, _)
SumSqDevN(q, n, sum) ==
  IF q = <<>> THEN 0
  ELSE (q[1] * n - sum) * (q[1] * n - sum) + SumSqDevN(Tail(q), n, sum)

\* C8: after bench_stats_init and pushes d_1 .. d_n (n >= 1) the statistics
\* hold count = n, total = d_1 + ... + d_n, mean = the arithmetic mean,
\* d_squared = the sum of the squared deviations from that mean, and
\* bench_stats_variance = d_squared / n, the population variance.  The right
\* hand sides are symmetric in the d_i, so the order of the pushes is
\* immaterial.
C8_Welford ==
  LET n == Len(pushed)
      sum == SumSeq(pushed)
  IN n >= 1 =>
       /\ stats.count = n
       /\ stats.total = sum
       /\ stats.mean = Norm(sum, n)
       /\ stats.d_squared = Norm(SumSqDevN(pushed, n, sum), n * n)
       /\ bench_stats_variance(stats)
            = Norm(SumSqDevN(pushed, n, sum), n * n * n)

\* Three pushes 1, 2, 3 (the spec's 10, 20, 30 in tens): mean 2, variance 2/3.
C8_Witness ==
  /\ pushed = <<1, 2, 3>>
  /\ stats.mean = <<2, 1>>
  /\ bench_stats_variance(stats) = <<2, 3>>

\* The relative standard deviation in percent, stddev / mean * 100, in
\* hundredths as "%.2f" would print it.
RelativeStddev100(st) ==
  Sqrt100(FMul(FDiv(bench_stats_variance(st), FMul(st.mean, st.mean)),
               ToFloat(10000)))

\* C9: the +- figure of a summary line is the standard deviation relative to
\* the mean, in percent (samples 10 and 30: mean 20, stddev 10, "+-50%").
C9_RelativeStddev ==
  (Len(pushed) >= 1 /\ FGreater(stats.mean, Zero))
    => bench_stats_print(stats).pm = RelativeStddev100(stats)


====
